---- MODULE Spec2Model ----
(***************************************************************************)
(* A model of katsu's Mueller calculus (src/katsu/mueller.py): the Stokes  *)
(* and Mueller builders and the Lu-Chipman polar decomposition.            *)
(*                                                                         *)
(* Numbers.  A float is modelled as an extended rational <<n, d>>:         *)
(*   d > 0          the rational n/d in lowest terms,                      *)
(*   <<1, 0>>       +inf,   <<-1, 0>>  -inf,   <<0, 0>>  NaN,              *)
(* with IEEE-754's rules for the special values (x/0, 0/0, inf-inf, 0*inf, *)
(* sqrt of a negative number).  Finite arithmetic is exact: rounding,      *)
(* overflow and the sign of zero are not modelled, so "equal" in the model *)
(* is the code's "equal up to rounding".  The one place where rounding     *)
(* decides a branch is LAPACK on an exactly singular block: what inv and   *)
(* det return there is an input of the call (onSingular).                  *)
(*                                                                         *)
(* Angles.  An angle x is carried by t = tan(x), a rational or +inf        *)
(* (x = pi/2), so that cos(2x) = (1-t^2)/(1+t^2) and sin(2x) = 2t/(1+t^2)  *)
(* are exact; a retardance r is carried by u = tan(r/2) in the same way.   *)
(***************************************************************************)
EXTENDS Integers, Sequences, FiniteSets, TLC

VARIABLES pc, inp, out, heap, steps

vars == <<pc, inp, out, heap, steps>>

(***************************************************************************)
(* float64 arithmetic as numpy applies it to array entries                 *)
(***************************************************************************)
Abs(n) == IF n < 0 THEN -n ELSE n

Sgn(n) == IF n < 0 THEN -1 ELSE IF n > 0 THEN 1 ELSE 0

RECURSIVE GCD(_, _)
GCD(a, b) == IF b = 0 THEN a ELSE GCD(b, a % b)

Norm(n, d) ==
    IF d = 0 THEN <<Sgn(n), 0>>
    ELSE LET g == GCD(Abs(n), Abs(d))
         IN  <<(Sgn(d) * n) \div g, Abs(d) \div g>>

NaN == <<0, 0>>
PosInf == <<1, 0>>
NegInf == <<-1, 0>>
Zero == <<0, 1>>
One == <<1, 1>>
Two == <<2, 1>>

IsNaN(x) == x = NaN
IsFinite(x) == x[2] > 0
IsNeg(x) == x[1] < 0
IsPos(x) == x[1] > 0

FNeg(x) == <<-x[1], x[2]>>

FAdd(x, y) ==
    IF x[2] = 0 /\ y[2] = 0
    THEN (IF x[1] = y[1] THEN x ELSE NaN)
    ELSE IF x[2] = 0 THEN x
    ELSE IF y[2] = 0 THEN y
    ELSE LET g == GCD(x[2], y[2])
         IN  Norm(x[1] * (y[2] \div g) + y[1] * (x[2] \div g), (x[2] \div g) * y[2])

FSub(x, y) == FAdd(x, FNeg(y))

FMul(x, y) ==
    IF x[2] = 0 \/ y[2] = 0
    THEN <<Sgn(x[1]) * Sgn(y[1]), 0>>
    ELSE LET g1 == GCD(Abs(x[1]), y[2])
             g2 == GCD(Abs(y[1]), x[2])
         IN  IF x[1] = 0 \/ y[1] = 0 THEN Zero
             ELSE <<(x[1] \div g1) * (y[1] \div g2), (x[2] \div g2) * (y[2] \div g1)>>

FRecip(y) ==
    IF y[2] = 0 THEN (IF y[1] = 0 THEN NaN ELSE Zero)
    ELSE IF y[1] = 0 THEN PosInf
    ELSE <<Sgn(y[1]) * y[2], Abs(y[1])>>

FDiv(x, y) ==
    IF y[2] # 0 /\ y[1] = 0
    THEN <<Sgn(x[1]), 0>>
    ELSE IF x[2] = 0 /\ y[2] = 0 THEN NaN
    ELSE FMul(x, FRecip(y))

FLess(x, y) ==
    /\ ~IsNaN(x) /\ ~IsNaN(y)
    /\ IF x[2] = 0 \/ y[2] = 0
       THEN (IF x[2] = 0 /\ y[2] = 0 THEN x[1] < y[1]
             ELSE IF x[2] = 0 THEN x[1] < 0 ELSE y[1] > 0)
       ELSE x[1] * y[2] < y[1] * x[2]

RECURSIVE ISqrtFrom(_, _)
ISqrtFrom(n, r) == IF (r + 1) * (r + 1) > n THEN r ELSE ISqrtFrom(n, r + 1)

\* the integer part of the square root of n
ISqrt(n) == ISqrtFrom(n, 0)

\* np.sqrt: NaN for a negative argument.  The inputs of the model are chosen so
\* that every non-negative argument is the square of a rational.
FSqrt(x) ==
    IF IsNaN(x) \/ IsNeg(x) THEN NaN
    ELSE IF x[2] = 0 THEN PosInf
    ELSE CHOOSE s \in {<<ISqrt(x[1]), ISqrt(x[2])>>} : FMul(s, s) = x

(***************************************************************************)
(* Angles and retardances: np.cos / np.sin of an argument whose half has   *)
(* tangent h (h = tan(a) for np.cos(2*a), h = tan(r/2) for np.cos(r)).     *)
(***************************************************************************)
Cos(h) ==
    IF ~IsFinite(h) THEN FNeg(One)
    ELSE FDiv(FSub(One, FMul(h, h)), FAdd(One, FMul(h, h)))

Sin(h) ==
    IF ~IsFinite(h) THEN Zero
    ELSE FDiv(FMul(Two, h), FAdd(One, FMul(h, h)))

\* -angle, -r
Negate(h) == FNeg(h)

(***************************************************************************)
(* Small dense matrices: a matrix is the tuple of its rows.                *)
(***************************************************************************)
Eager(f) == f \o <<>>

RECURSIVE SumTo(_, _)
SumTo(s, k) == IF k = 0 THEN Zero ELSE FAdd(SumTo(s, k - 1), s[k])

Sum(s) == SumTo(s, Len(s))

Tabulate(n, m, F(_, _)) ==
    Eager([i \in 1..n |-> Eager([j \in 1..m |-> F(i, j)])])

Zeros(n, m) == Tabulate(n, m, LAMBDA i, j : Zero)

Eye(n) == Tabulate(n, n, LAMBDA i, j : IF i = j THEN One ELSE Zero)

NaNs(n, m) == Tabulate(n, m, LAMBDA i, j : NaN)

\* A @ B
MatMul(A, B) ==
    Tabulate(Len(A), Len(B[1]),
             LAMBDA i, j : Sum(Eager([k \in 1..Len(B) |-> FMul(A[i][k], B[k][j])])))

\* np.swapaxes(A, -2, -1)
Transpose(A) == Tabulate(Len(A[1]), Len(A), LAMBDA i, j : A[j][i])

Scale(x, A) == Tabulate(Len(A), Len(A[1]), LAMBDA i, j : FMul(x, A[i][j]))

MatAdd(A, B) == Tabulate(Len(A), Len(A[1]), LAMBDA i, j : FAdd(A[i][j], B[i][j]))

MatNeg(A) == Tabulate(Len(A), Len(A[1]), LAMBDA i, j : FNeg(A[i][j]))

AllFinite(A) == \A i \in 1..Len(A) : \A j \in 1..Len(A[i]) : IsFinite(A[i][j])

Minor(A, r, c) ==
    Tabulate(Len(A) - 1, Len(A) - 1,
             LAMBDA i, j : A[IF i < r THEN i ELSE i + 1][IF j < c THEN j ELSE j + 1])

RECURSIVE Det(_)
\* np.linalg.det of one matrix
Det(A) ==
    IF Len(A) = 1 THEN A[1][1]
    ELSE Sum(Eager([j \in 1..Len(A) |->
             FMul(IF j % 2 = 1 THEN A[1][j] ELSE FNeg(A[1][j]), Det(Minor(A, 1, j)))]))

Adjugate(A) ==
    Tabulate(Len(A), Len(A),
             LAMBDA i, j : IF (i + j) % 2 = 0 THEN Det(Minor(A, j, i))
                           ELSE FNeg(Det(Minor(A, j, i))))

(***************************************************************************)
(* numpy arrays.  An array is [shape, data]: its full shape and the flat   *)
(* tuple of its blocks in index order.  For a Mueller array the blocks are *)
(* the 4x4 matrices and shape ends in <<4, 4>>; for a Stokes array 4x1;    *)
(* for a parameter array the blocks are the numbers (a Python scalar has   *)
(* shape <<>>).  A shape argument is [none, dims]: None, or a tuple.       *)
(***************************************************************************)
RECURSIVE ProdTo(_, _)
ProdTo(dims, k) == IF k = 0 THEN 1 ELSE ProdTo(dims, k - 1) * dims[k]

Prod(dims) == ProdTo(dims, Len(dims))

NoShape == [none |-> TRUE, dims |-> <<>>]

ShapeOf(dims) == [none |-> FALSE, dims |-> dims]

Scalar(v) == [shape |-> <<>>, data |-> <<v>>]

\* M.shape[:-2]
BatchDims(M) == SubSeq(M.shape, 1, Len(M.shape) - 2)

\* M.ndim
Ndim(M) == Len(M.shape)

\* the k-th element of p once broadcast against a batch
At(p, k) == IF p.shape = <<>> THEN p.data[1] ELSE p.data[k]

Map1(F(_), p) ==
    [shape |-> p.shape, data |-> Eager([k \in 1..Len(p.data) |-> F(p.data[k])])]

Map2(F(_, _), p, q) ==
    LET big == IF p.shape = <<>> THEN q ELSE p
    IN  [shape |-> big.shape,
         data |-> Eager([k \in 1..Len(big.data) |-> F(At(p, k), At(q, k))])]

\* np.broadcast_to(p, dims) for a scalar p or a p of shape dims
broadcast_to(p, dims) ==
    [shape |-> dims, data |-> Eager([k \in 1..Prod(dims) |-> At(p, k)])]

\* np.zeros(dims + (n, m))
np_zeros(dims, n, m) ==
    [shape |-> dims \o <<n, m>>, data |-> Eager([k \in 1..Prod(dims) |-> Zeros(n, m)])]

\* M[..., i, j]   (0-based, as in the source)
GetItem(M, i, j) ==
    [shape |-> BatchDims(M),
     data |-> Eager([k \in 1..Len(M.data) |-> M.data[k][i + 1][j + 1]])]

\* a mutation of the assignment: M[0, ..., i, j] = p, the first block alone
SetFirstItem(M, i, j, p) ==
    [shape |-> M.shape,
     data |-> Eager([k \in 1..Len(M.data) |->
                       IF k = 1 THEN [M.data[k] EXCEPT ![i + 1][j + 1] = At(p, k)]
                       ELSE M.data[k]])]

\* M[..., i, j] = p
SetItem(M, i, j, p) ==
    [shape |-> M.shape,
     data |-> Eager([k \in 1..Len(M.data) |->
                       [M.data[k] EXCEPT ![i + 1][j + 1] = At(p, k)]])]

\* M /= x, M * x
ScaleBlocks(M, x) ==
    [shape |-> M.shape, data |-> Eager([k \in 1..Len(M.data) |-> Scale(x, M.data[k])])]

\* A @ B on arrays of one batch shape
MatMulBlocks(A, B) ==
    [shape |-> BatchDims(A) \o <<A.shape[Len(A.shape) - 1], B.shape[Len(B.shape)]>>,
     data |-> Eager([k \in 1..Len(A.data) |-> MatMul(A.data[k], B.data[k])])]

(***************************************************************************)
(* In-place assignment.  A builder is a list of assignments to its fresh   *)
(* zero array, applied in source order: M[..., i, j] = p, or the read-back *)
(* forms M[..., i, j] = M[..., k, l] and M[..., i, j] = -1 * M[..., k, l]. *)
(***************************************************************************)
Put(i, j, p) == [i |-> i, j |-> j, src |-> "value", p |-> p, k |-> 0, l |-> 0]

Copy(i, j, k, l) ==
    [i |-> i, j |-> j, src |-> "entry", p |-> Scalar(One), k |-> k, l |-> l]

MinusCopy(i, j, k, l) ==
    [i |-> i, j |-> j, src |-> "minus_entry", p |-> Scalar(FNeg(One)), k |-> k, l |-> l]

AssignOne(M, it) ==
    IF it.src = "value" THEN SetItem(M, it.i, it.j, it.p)
    ELSE IF it.src = "entry" THEN SetItem(M, it.i, it.j, GetItem(M, it.k, it.l))
    ELSE SetItem(M, it.i, it.j, Map2(FMul, it.p, GetItem(M, it.k, it.l)))

RECURSIVE AssignFrom(_, _, _)
AssignFrom(M, items, n) ==
    IF n > Len(items) THEN M ELSE AssignFrom(AssignOne(M, items[n]), items, n + 1)

Assign(M, items) == AssignFrom(M, items, 1)

\* p, broadcast to M's batch shape when M is batched (the "if M.ndim > 2" blocks)
Sized(M, p) == IF Ndim(M) > 2 THEN broadcast_to(p, BatchDims(M)) ELSE p

(***************************************************************************)
(* The builders                                                            *)
(***************************************************************************)
empty_stokes(shape) ==
    IF shape.none THEN np_zeros(<<>>, 4, 1) ELSE np_zeros(shape.dims, 4, 1)

stokes_from_parameters(I, Q, U, V, shape) ==
    Assign(empty_stokes(shape), <<Put(0, 0, I), Put(1, 0, Q), Put(2, 0, U), Put(3, 0, V)>>)

empty_mueller(shape) ==
    IF shape.none THEN np_zeros(<<>>, 4, 4) ELSE np_zeros(shape.dims, 4, 4)

\* a mutation of the rotation: the same sign on both off-diagonal entries
RotationSameSign(M, cos2theta, sin2theta) ==
    Assign(M, <<
        Put(0, 0, Scalar(One)),
        Put(3, 3, Scalar(One)),
        Put(1, 1, cos2theta),
        Put(2, 2, cos2theta),
        Put(1, 2, sin2theta),
        Put(2, 1, sin2theta) >>)

RotationEntries(M, cos2theta, sin2theta) ==
    Assign(M, <<
        Put(0, 0, Scalar(One)),
        Put(3, 3, Scalar(One)),
        Put(1, 1, cos2theta),
        Put(2, 2, cos2theta),
        Put(1, 2, sin2theta),
        Put(2, 1, Map1(FNeg, sin2theta)) >>)

mueller_rotation(angle, shape) ==
    RotationEntries(empty_mueller(shape), Sized(empty_mueller(shape), Map1(Cos, angle)),
                    Sized(empty_mueller(shape), Map1(Sin, angle)))

\* a mutation of the polarizer: the last diagonal entry filled like the first
PolarizerFullDiagonal(M, ones, cos2a, sin2a) ==
    Assign(M, <<
        Put(0, 0, ones),
        Put(0, 1, cos2a),
        Put(0, 2, sin2a),
        Put(1, 0, cos2a),
        Put(1, 1, Map2(FMul, cos2a, cos2a)),
        Put(1, 2, Map2(FMul, cos2a, sin2a)),
        Put(2, 0, sin2a),
        Put(2, 1, Map2(FMul, cos2a, sin2a)),
        Put(2, 2, Map2(FMul, sin2a, sin2a)),
        Put(3, 3, ones) >>)

PolarizerEntries(M, ones, cos2a, sin2a) ==
    Assign(M, <<
        Put(0, 0, ones),
        Put(0, 1, cos2a),
        Put(0, 2, sin2a),
        Put(1, 0, cos2a),
        Put(1, 1, Map2(FMul, cos2a, cos2a)),
        Put(1, 2, Map2(FMul, cos2a, sin2a)),
        Put(2, 0, sin2a),
        Put(2, 1, Map2(FMul, cos2a, sin2a)),
        Put(2, 2, Map2(FMul, sin2a, sin2a)) >>)

linear_polarizer(a, shape) ==
    ScaleBlocks(PolarizerEntries(empty_mueller(shape), Map1(LAMBDA x : One, a),
                                 Map1(Cos, a), Map1(Sin, a)),
                <<1, 2>>)

\* a mutation of the retarder: the fourth row copied without its sign
RetarderSymmetric(M, cos2a, sin2a, cosr, sinr) ==
    Assign(M, <<
        Put(0, 0, Scalar(One)),
        Put(1, 1, Map2(FAdd, Map2(FMul, cos2a, cos2a),
                             Map2(FMul, cosr, Map2(FMul, sin2a, sin2a)))),
        Put(1, 2, Map2(FMul, Map2(FMul, Map2(FSub, Scalar(One), cosr), cos2a), sin2a)),
        Put(1, 3, Map2(FMul, Map1(FNeg, sinr), sin2a)),
        Copy(2, 1, 1, 2),
        Put(2, 2, Map2(FAdd, Map2(FMul, cosr, Map2(FMul, cos2a, cos2a)),
                             Map2(FMul, sin2a, sin2a))),
        Put(2, 3, Map2(FMul, cos2a, sinr)),
        Copy(3, 1, 1, 3),
        Copy(3, 2, 2, 3),
        Put(3, 3, cosr) >>)

RetarderEntries(M, cos2a, sin2a, cosr, sinr) ==
    Assign(M, <<
        Put(0, 0, Scalar(One)),
        Put(1, 1, Map2(FAdd, Map2(FMul, cos2a, cos2a),
                             Map2(FMul, cosr, Map2(FMul, sin2a, sin2a)))),
        Put(1, 2, Map2(FMul, Map2(FMul, Map2(FSub, Scalar(One), cosr), cos2a), sin2a)),
        Put(1, 3, Map2(FMul, Map1(FNeg, sinr), sin2a)),
        Copy(2, 1, 1, 2),
        Put(2, 2, Map2(FAdd, Map2(FMul, cosr, Map2(FMul, cos2a, cos2a)),
                             Map2(FMul, sin2a, sin2a))),
        Put(2, 3, Map2(FMul, cos2a, sinr)),
        MinusCopy(3, 1, 1, 3),
        MinusCopy(3, 2, 2, 3),
        Put(3, 3, cosr) >>)

RetarderSized(M, a, r) ==
    RetarderEntries(M, Map1(Cos, a), Map1(Sin, a), Map1(Cos, r), Map1(Sin, r))

\* an ndarray a is left alone, a scalar a is broadcast
RetarderFill(M, a, r) ==
    RetarderSized(M, IF a.shape = <<>> THEN Sized(M, a) ELSE a, Sized(M, r))

linear_retarder(a, r, shape) == RetarderFill(empty_mueller(shape), a, r)

DiattenuatorEntries(M, A, B, C, cos2a, sin2a) ==
    Assign(M, <<
        Put(0, 0, A),
        Put(0, 1, Map2(FMul, B, cos2a)),
        Put(0, 2, Map2(FMul, B, sin2a)),
        Copy(1, 0, 0, 1),
        Put(1, 1, Map2(FAdd, Map2(FMul, A, Map2(FMul, cos2a, cos2a)),
                             Map2(FMul, C, Map2(FMul, sin2a, sin2a)))),
        Put(1, 2, Map2(FMul, Map2(FMul, Map2(FSub, A, C), cos2a), sin2a)),
        Copy(2, 0, 0, 2),
        Copy(2, 1, 1, 2),
        Put(2, 2, Map2(FAdd, Map2(FMul, C, Map2(FMul, cos2a, cos2a)),
                             Map2(FMul, A, Map2(FMul, sin2a, sin2a)))),
        Put(3, 3, C) >>)

DiattenuatorSized(M, a, Tmin, Tmax) ==
    DiattenuatorEntries(M, Map2(FAdd, Tmax, Tmin), Map2(FSub, Tmax, Tmin),
                        Map2(FMul, Scalar(Two), Map1(FSqrt, Map2(FMul, Tmax, Tmin))),
                        Map1(Cos, a), Map1(Sin, a))

DiattenuatorFill(M, a, Tmin, Tmax) ==
    ScaleBlocks(DiattenuatorSized(M, Sized(M, a), Sized(M, Tmin), Tmax), <<1, 2>>)

linear_diattenuator(a, Tmin, Tmax, shape) ==
    DiattenuatorFill(empty_mueller(shape), a, Tmin, Tmax)

DepolarizerEntries(M, a, b, c) ==
    Assign(M, <<Put(0, 0, Scalar(One)), Put(1, 1, a), Put(2, 2, b), Put(3, 3, c)>>)

DepolarizerFill(M, a, b, c) == DepolarizerEntries(M, Sized(M, a), Sized(M, b), Sized(M, c))

depolarizer(angle, a, b, c, shape) ==
    MatMulBlocks(MatMulBlocks(mueller_rotation(angle, shape),
                              DepolarizerFill(empty_mueller(shape), a, b, c)),
                 mueller_rotation(Map1(Negate, angle), shape))

(***************************************************************************)
(* numpy.linalg on stacks of matrices.  A call that numpy lets fail raises *)
(* LinAlgError for the whole stack: the result is [raised, val].           *)
(***************************************************************************)
Ok(v) == [raised |-> FALSE, val |-> v]

LinAlgError == [raised |-> TRUE, val |-> <<>>]

\* The inverse of one matrix, and whether the matrix is exactly singular.  A NaN
\* or inf entry makes LAPACK's result NaN.  On a singular matrix the LU
\* factorisation either meets a pivot that is exactly zero (LinAlgError) or,
\* after rounding, a tiny one: the entries are then unspecified, written NaN.
InvBlock(A) ==
    LET finite == AllFinite(A)
        d == IF finite THEN Det(A) ELSE NaN
    IN  [singular |-> finite /\ d = Zero,
         inv |-> IF ~finite \/ d = Zero THEN NaNs(Len(A), Len(A))
                 ELSE Scale(FRecip(d), Adjugate(A))]

\* np.linalg.inv(A); onSingular is what rounding leaves of a singular block in
\* this build: "raise" an exactly zero pivot, "garbage" and "negated" a tiny one
np_linalg_inv(A, onSingular) ==
    LET blocks == Eager([k \in 1..Len(A.data) |-> InvBlock(A.data[k])])
    IN  IF onSingular = "raise" /\ \E k \in 1..Len(blocks) : blocks[k].singular
        THEN LinAlgError
        ELSE Ok([shape |-> A.shape,
                 data |-> Eager([k \in 1..Len(blocks) |-> blocks[k].inv])])

\* what rounding leaves of a determinant that is exactly zero: only its sign is used
Residue == <<1, 1000000>>

\* a row or a column of zeros stays zero through the LU factorisation
HasZeroLine(A) ==
    \/ \E i \in 1..Len(A) : \A j \in 1..Len(A) : A[i][j] = Zero
    \/ \E j \in 1..Len(A) : \A i \in 1..Len(A) : A[i][j] = Zero

\* The determinant of one block, the product of the pivots of its LU
\* factorisation.  For an exactly singular block it is zero when a pivot is
\* exactly zero, else a rounding residue of either sign.
DetBlock(A, onSingular) ==
    IF ~AllFinite(A) \/ Det(A) # Zero \/ HasZeroLine(A) \/ onSingular = "raise"
    THEN Det(A)
    ELSE IF onSingular = "negated" THEN FNeg(Residue) ELSE Residue

\* np.linalg.det(A): one number per block
np_linalg_det(A, onSingular) ==
    [shape |-> BatchDims(A),
     data |-> Eager([k \in 1..Len(A.data) |-> DetBlock(A.data[k], onSingular)])]

\* The roots x of x^2 - tr*x + dt, as a pair
QuadRoots(tr, dt) ==
    LET disc == FSqrt(FSub(FMul(tr, tr), FMul(<<4, 1>>, dt)))
    IN  <<FMul(<<1, 2>>, FAdd(tr, disc)), FMul(<<1, 2>>, FSub(tr, disc))>>

\* The axes of a 3x3 matrix that no off-diagonal entry couples to the others
Decoupled(A) ==
    {i \in 1..3 : \A j \in 1..3 : j # i => (A[i][j] = Zero /\ A[j][i] = Zero)}

\* The three eigenvalues of one 3x3 block, in LAPACK's unspecified order: an
\* uncoupled axis gives its diagonal entry, the other two are the roots of the
\* remaining 2x2 block's characteristic polynomial.
EigvalsBlock(A) ==
    LET i == CHOOSE i \in Decoupled(A) : TRUE
        B == Minor(A, i, i)
        r == QuadRoots(FAdd(B[1][1], B[2][2]), Det(B))
    IN  <<A[i][i], r[1], r[2]>>

\* np.linalg.eigvals(A): shape batch + (3,); refuses NaN and inf entries
np_linalg_eigvals(A) ==
    IF \E k \in 1..Len(A.data) : ~AllFinite(A.data[k])
    THEN LinAlgError
    ELSE Ok([shape |-> BatchDims(A) \o <<3>>,
             data |-> Eager([k \in 1..Len(A.data) |-> EigvalsBlock(A.data[k])])])

(***************************************************************************)
(* katsu_math.broadcast_outer: the outer product over the last axis        *)
(***************************************************************************)
broadcast_outer(a, b) ==
    Tabulate(Len(a), Len(b), LAMBDA i, j : FMul(a[i], b[j]))

(***************************************************************************)
(* Polar decomposition (Lu & Chipman 1996)                                 *)
(***************************************************************************)
\* diattenuation_vector = M[..., 0, 1:] / T of one element
DiattenuationVector(m) == Eager([j \in 1..3 |-> FDiv(m[1][j + 1], m[1][1])])

\* D = np.sqrt(np.sum(diattenuation_vector * diattenuation_vector, axis=-1))
ScalarDiattenuation(d) == FSqrt(Sum(Eager([j \in 1..3 |-> FMul(d[j], d[j])])))

\* a mutation of mD: the square root of the magnitude
RootOfMagnitude(D) ==
    IF IsNaN(D) THEN NaN
    ELSE IF FLess(One, FMul(D, D)) THEN FSqrt(FSub(FMul(D, D), One))
    ELSE FSqrt(FSub(One, FMul(D, D)))

\* mD = np.sqrt(1 - D**2)
mD_of(D) == FSqrt(FSub(One, FMul(D, D)))

\* diattenutation_norm = diattenuation_vector / D
Normalized(d, D) == Eager([j \in 1..3 |-> FDiv(d[j], D)])

\* inner_diattenuator = mD * I + (1 - mD) * DD
InnerDiattenuator(mD, DD) == MatAdd(Scale(mD, Eye(3)), Scale(FSub(One, mD), DD))

\* Md = _empty_mueller(..) and the four slice assignments
FillMd(d, inner_diattenuator) ==
    Tabulate(4, 4, LAMBDA i, j :
        IF i = 1 /\ j = 1 THEN One
        ELSE IF i = 1 THEN d[j - 1]
        ELSE IF j = 1 THEN d[i - 1]
        ELSE inner_diattenuator[i - 1][j - 1])

\* Md = Md * T
AssembleMd(T, d, inner_diattenuator) == Scale(T, FillMd(d, inner_diattenuator))

DiattenuatorFromD(T, d, D) ==
    AssembleMd(T, d, InnerDiattenuator(mD_of(D),
                         broadcast_outer(Normalized(d, D), Normalized(d, D))))

DiattenuatorFromVector(T, d) == DiattenuatorFromD(T, d, ScalarDiattenuation(d))

\* decompose_diattenuator on one batch element
DiattenuatorBlock(m) == DiattenuatorFromVector(m[1][1], DiattenuationVector(m))

decompose_diattenuator(M) ==
    [shape |-> BatchDims(M) \o <<4, 4>>,
     data |-> Eager([k \in 1..Len(M.data) |-> DiattenuatorBlock(M.data[k])])]

\* Mr = M @ np.linalg.inv(Md), and what is returned
RetarderReturn(M, Md, inv_Md, return_all) ==
    IF inv_Md.raised THEN LinAlgError
    ELSE IF return_all THEN Ok(<<MatMulBlocks(M, inv_Md.val), Md>>)
    ELSE Ok(<<MatMulBlocks(M, inv_Md.val)>>)

\* val is <<Mr>>, or <<Mr, Md>> for return_all
decompose_retarder(M, return_all, onSingular) ==
    RetarderReturn(M, decompose_diattenuator(M),
                   np_linalg_inv(decompose_diattenuator(M), onSingular), return_all)

MapBlocks(F(_), A, n, m) ==
    [shape |-> BatchDims(A) \o <<n, m>>,
     data |-> Eager([k \in 1..Len(A.data) |-> F(A.data[k])])]

\* Mp[..., 1:, 1:] of one element
LowerRight(m) == Minor(m, 1, 1)

\* Mp[..., 1:, 0] of one element
LowerLeft(m) == Eager([i \in 1..3 |-> m[i + 1][1]])

\* e1, e2, e3 of every element: np.sqrt of its three eigenvalues
Roots(evals) ==
    [shape |-> evals.shape,
     data |-> Eager([k \in 1..Len(evals.data) |->
                 Eager([i \in 1..3 |-> FSqrt(evals.data[k][i])])])]

\* lhs = mm + (e1e2 + e2e3 + e3e1)*I for one element; e = <<e1, e2, e3>>
LhsBlock(mm, e) ==
    MatAdd(mm, Scale(FAdd(FAdd(FMul(e[1], e[2]), FMul(e[2], e[3])), FMul(e[3], e[1])),
                     Eye(3)))

\* rhs = (e1 + e2 + e3)*mm + e1e2e3*I for one element
RhsBlock(mm, e) ==
    MatAdd(Scale(FAdd(FAdd(e[1], e[2]), e[3]), mm),
           Scale(FMul(FMul(e[1], e[2]), e[3]), Eye(3)))

\* a mutation of md: one test of the sign, a zero determinant taken as positive
SelectMdNonNegative(det_mm, inv_lhs, rhs) ==
    IF FLess(det_mm, Zero) THEN MatMul(MatNeg(inv_lhs), rhs)
    ELSE MatMul(inv_lhs, rhs)

\* md for one element: the two masked assignments onto np.zeros_like(mm)
SelectMd(det_mm, inv_lhs, rhs) ==
    IF FLess(det_mm, Zero) THEN MatMul(MatNeg(inv_lhs), rhs)
    ELSE IF FLess(Zero, det_mm) THEN MatMul(inv_lhs, rhs)
    ELSE Zeros(3, 3)

\* M_depolarizer for one element: zeros, then the three slice assignments
DepolarizerBlock(Pdelta, md) ==
    Tabulate(4, 4, LAMBDA i, j :
        IF i = 1 THEN (IF j = 1 THEN One ELSE Zero)
        ELSE IF j = 1 THEN Pdelta[i - 1]
        ELSE md[i - 1][j - 1])

\* M_depolarizer from Mp, mm, det_mm, the square-rooted eigenvalues and inv(lhs)
PopulateDepolarizer(Mp, mm, det_mm, e, inv_lhs) ==
    [shape |-> Mp.shape,
     data |-> Eager([k \in 1..Len(Mp.data) |->
                 DepolarizerBlock(LowerLeft(Mp.data[k]),
                                  SelectMd(det_mm.data[k], inv_lhs.data[k],
                                           RhsBlock(mm.data[k], e.data[k])))])]

\* the return statement: with return_all, M_retarder = inv(M_depolarizer) @ Mp
DepolarizerReturn(ret, M_depolarizer, inv_dep, return_all) ==
    IF ~return_all THEN Ok(<<M_depolarizer>>)
    ELSE IF inv_dep.raised THEN LinAlgError
    ELSE Ok(<<M_depolarizer, MatMulBlocks(inv_dep.val, ret[1]), ret[2]>>)

DepolarizerFinish(ret, M_depolarizer, return_all, onSingular) ==
    DepolarizerReturn(ret, M_depolarizer,
                      IF return_all THEN np_linalg_inv(M_depolarizer, onSingular)
                      ELSE LinAlgError,
                      return_all)

DepolarizerFromInverse(ret, mm, det_mm, e, inv_lhs, return_all, onSingular) ==
    IF inv_lhs.raised THEN LinAlgError
    ELSE DepolarizerFinish(ret, PopulateDepolarizer(ret[1], mm, det_mm, e, inv_lhs.val),
                           return_all, onSingular)

Lhs(mm, e) ==
    [shape |-> mm.shape,
     data |-> Eager([k \in 1..Len(mm.data) |-> LhsBlock(mm.data[k], e.data[k])])]

DepolarizerFromRoots(ret, mm, det_mm, e, return_all, onSingular) ==
    DepolarizerFromInverse(ret, mm, det_mm, e, np_linalg_inv(Lhs(mm, e), onSingular),
                           return_all, onSingular)

DepolarizerFromEigvals(ret, mm, evals, return_all, onSingular) ==
    IF evals.raised THEN LinAlgError
    ELSE DepolarizerFromRoots(ret, mm, np_linalg_det(mm, onSingular), Roots(evals.val),
                              return_all, onSingular)

\* a mutation of mm: the product with a sign error, -(mp @ mp^T)
GramNegated(mp) == MatMulBlocks(MapBlocks(MatNeg, mp, 3, 3), MapBlocks(Transpose, mp, 3, 3))

\* mm = mp @ np.swapaxes(mp, -2, -1)
Gram(mp) == MatMulBlocks(mp, MapBlocks(Transpose, mp, 3, 3))

DepolarizerFromRetarder(ret, return_all, onSingular) ==
    IF ret.raised THEN LinAlgError
    ELSE DepolarizerFromEigvals(ret.val, Gram(MapBlocks(LowerRight, ret.val[1], 3, 3)),
             np_linalg_eigvals(Gram(MapBlocks(LowerRight, ret.val[1], 3, 3))),
             return_all, onSingular)

\* val is <<M_depolarizer>>, or <<M_depolarizer, M_retarder, M_diattenuator>>
decompose_depolarizer(M, return_all, onSingular) ==
    DepolarizerFromRetarder(decompose_retarder(M, return_all, onSingular),
                            return_all, onSingular)

(***************************************************************************)
(* Inputs                                                                  *)
(***************************************************************************)
MaxTan == 2
MaxT == 2
MaxAxis == 1

\* tan(a) of the axis angles, tan(r/2) of the retardances; +-inf is +-pi/2 (pi)
Tans == {Norm(p, q) : p \in -MaxTan..MaxTan, q \in 0..MaxTan} \ {NaN}

\* transmissions with a rational square root
Transmissions == {Norm(p * p, q * q) : p \in 0..MaxT, q \in 1..MaxT}

\* the angles and retardances of the composed systems
AxisTans == {Norm(p, q) : p \in 0..MaxAxis, q \in 1..2}

\* depolarization factors (a, b, c): none, partial, with a sign, with zeros
Factors ==
    { <<One, One, One>>, <<One, <<1, 2>>, <<1, 4>>>>, <<<<-1, 2>>, <<1, 2>>, One>>,
      <<Zero, <<1, 2>>, One>>, <<Zero, Zero, Zero>> }

\* minimum transmissions of the composed systems: 0 (a polarizer) up to Tmax = 1
ProductTmins == {Zero, <<1, 4>>, One}

\* tan(r/2) of the retardances of the composed systems: 0, about 53 and 90 degrees
Retardances == {Zero, <<1, 2>>, One}

\* axis angles of the retarder and the diattenuator of the composed systems
ProductAxes == {Zero, <<1, 2>>}

Mueller(m) == [shape |-> <<4, 4>>, data |-> <<m>>]

RECURSIVE TuplesOf(_, _)
\* the tuples of n elements of E
TuplesOf(E, n) ==
    IF n = 0 THEN {<<>>} ELSE {Append(t, e) : t \in TuplesOf(E, n - 1), e \in E}

\* A 4x4 input with M[0,0] = T and first row T*D*u (D*u when T = 0), u the unit
\* vector at angle phi in the plane that leaves axis k out, over rows 1..3 of low
RawMatrix(T, D, phi, k, low) ==
    LET u == IF k = 1 THEN <<Zero, Cos(phi), Sin(phi)>>
             ELSE IF k = 2 THEN <<Cos(phi), Zero, Sin(phi)>>
             ELSE <<Cos(phi), Sin(phi), Zero>>
        x == IF T = Zero THEN D ELSE FMul(T, D)
    IN  Tabulate(4, 4, LAMBDA i, j :
            IF i = 1 THEN (IF j = 1 THEN T ELSE FMul(x, u[j - 1])) ELSE low[i][j])

\* scalar diattenuations D with sqrt(1 - D^2) rational (D <= 1) or NaN (D > 1)
RawDs ==
    {Sin(t) : t \in {u \in Tans : ~IsNeg(u)}}
        \cup {FRecip(Sin(t)) : t \in {u \in Tans : IsPos(u)}}

\* inputs with M[0,0] = 0 and no zero in the rest of the first row
ZeroTMatrices ==
    {Tabulate(4, 4, LAMBDA i, j :
         IF i > 1 THEN low[i][j] ELSE IF j = 1 THEN Zero ELSE <<x[j - 1], 1>>) :
        x \in {<<1, 1, 1>>, <<1, -1, 2>>}, low \in {Eye(4), Zeros(4, 4)}}

RawMatrices ==
    {RawMatrix(T, D, phi, k, low) :
        T \in {Norm(p, q) : p \in -MaxT..MaxT, q \in 1..MaxT}, D \in RawDs, phi \in AxisTans, k \in 1..3, low \in {Eye(4), Zeros(4, 4)}}
        \cup ZeroTMatrices

(***************************************************************************)
(* The calls.  The library is stateless: a call is made from "idle" with   *)
(* inputs of the caller's choice, its result is in out, and Return gives   *)
(* control back.                                                           *)
(***************************************************************************)
None == [none |-> TRUE]

Init == pc = "idle" /\ inp = None /\ out = None /\ heap = <<>> /\ steps = 0

Return ==
    pc # "idle" /\ pc' = "idle" /\ inp' = None /\ out' = None /\ UNCHANGED <<heap, steps>>

\* decompose_diattenuator(linear_diattenuator(a, Tmin))
DiattenuatorOfLinearDiattenuator ==
    /\ pc = "idle"
    /\ \E a \in Tans, Tmin \in Transmissions :
          /\ inp' = [a |-> a, Tmin |-> Tmin,
                     M |-> linear_diattenuator(Scalar(a), Scalar(Tmin), Scalar(One), NoShape)]
          /\ out' = Ok(decompose_diattenuator(inp'.M))
    /\ pc' = "diattenuator_of_linear_diattenuator"
    /\ UNCHANGED <<heap, steps>>

\* decompose_diattenuator(M) for an arbitrary 4x4 M
DecomposeDiattenuator ==
    /\ pc = "idle"
    /\ \E m \in RawMatrices :
          /\ inp' = [M |-> Mueller(m)]
          /\ out' = Ok(decompose_diattenuator(Mueller(m)))
    /\ pc' = "decompose_diattenuator"
    /\ UNCHANGED <<heap, steps>>

Compose(angle, f, a_r, r, a_d, Tmin, Tmax) ==
    MatMulBlocks(
        MatMulBlocks(depolarizer(Scalar(angle), Scalar(f[1]), Scalar(f[2]), Scalar(f[3]), NoShape),
                     linear_retarder(Scalar(a_r), Scalar(r), NoShape)),
        linear_diattenuator(Scalar(a_d), Scalar(Tmin), Scalar(Tmax), NoShape))

\* decompose_depolarizer(depolarizer(..) @ linear_retarder(..) @ linear_diattenuator(..))
DepolarizerOfProduct ==
    /\ pc = "idle"
    /\ \E angle \in AxisTans, f \in Factors, a_r \in ProductAxes, r \in Retardances,
          a_d \in ProductAxes, Tmin \in ProductTmins, Tmax \in {One},
          return_all \in BOOLEAN, onSingular \in {"raise", "garbage", "negated"} :
          /\ inp' = [angle |-> angle, abc |-> f, a_r |-> a_r, r |-> r, a_d |-> a_d,
                     Tmin |-> Tmin, Tmax |-> Tmax, return_all |-> return_all,
                     onSingular |-> onSingular,
                     M |-> Compose(angle, f, a_r, r, a_d, Tmin, Tmax)]
          /\ out' = decompose_depolarizer(inp'.M, return_all, onSingular)
    /\ pc' = "depolarizer_of_product"
    /\ UNCHANGED <<heap, steps>>

\* mueller_rotation(angle) @ mueller_rotation(-angle)
RotationThenInverse ==
    /\ pc = "idle"
    /\ \E angle \in Tans :
          /\ inp' = [angle |-> angle]
          /\ out' = Ok(MatMulBlocks(mueller_rotation(Scalar(angle), NoShape),
                                    mueller_rotation(Scalar(Negate(angle)), NoShape)))
    /\ pc' = "rotation_then_inverse"
    /\ UNCHANGED <<heap, steps>>

\* linear_retarder(a, r) @ linear_retarder(a, -r)
RetarderThenInverse ==
    /\ pc = "idle"
    /\ \E a \in Tans, r \in Tans :
          /\ inp' = [a |-> a, r |-> r]
          /\ out' = Ok(MatMulBlocks(linear_retarder(Scalar(a), Scalar(r), NoShape),
                                    linear_retarder(Scalar(a), Scalar(Negate(r)), NoShape)))
    /\ pc' = "retarder_then_inverse"
    /\ UNCHANGED <<heap, steps>>

\* linear_polarizer(a)
LinearPolarizer ==
    /\ pc = "idle"
    /\ \E a \in Tans :
          /\ inp' = [a |-> a]
          /\ out' = Ok(linear_polarizer(Scalar(a), NoShape))
    /\ pc' = "linear_polarizer"
    /\ UNCHANGED <<heap, steps>>

Next ==
    \/ DiattenuatorOfLinearDiattenuator
    \/ DecomposeDiattenuator
    \/ RotationThenInverse
    \/ RetarderThenInverse
    \/ LinearPolarizer
    \/ Return

Spec == Init /\ [][Next]_vars

NextDepol == DepolarizerOfProduct \/ Return

SpecDepol == Init /\ [][NextDepol]_vars

(***************************************************************************)
(* The builders on batch shapes: each call is made twice, with the shape   *)
(* and with shape=None.                                                    *)
(***************************************************************************)
MaxRank == 2
MaxDim == 2

\* the batch shapes (d1, ..., dk), k <= MaxRank, () included
Shapes == UNION {TuplesOf(0..MaxDim, k) : k \in 0..MaxRank}

\* Stokes parameters (I, Q, U, V)
StokesParameters ==
    { <<One, Zero, Zero, Zero>>, <<One, One, Zero, Zero>>, <<Two, <<-1, 2>>, One, <<1, 4>>>>,
      <<One, Zero, <<3, 5>>, <<-4, 5>>>> }

BuildStokes ==
    /\ pc = "idle"
    /\ \E S \in Shapes, p \in StokesParameters :
          /\ inp' = [builder |-> "stokes_from_parameters", shape |-> S, block |-> <<4, 1>>]
          /\ out' = [batched |-> stokes_from_parameters(Scalar(p[1]), Scalar(p[2]),
                                     Scalar(p[3]), Scalar(p[4]), ShapeOf(S)),
                     single |-> stokes_from_parameters(Scalar(p[1]), Scalar(p[2]),
                                     Scalar(p[3]), Scalar(p[4]), NoShape)]
    /\ pc' = "build"
    /\ UNCHANGED <<heap, steps>>

BuildRotation ==
    /\ pc = "idle"
    /\ \E S \in Shapes, angle \in AxisTans :
          /\ inp' = [builder |-> "mueller_rotation", shape |-> S, block |-> <<4, 4>>]
          /\ out' = [batched |-> mueller_rotation(Scalar(angle), ShapeOf(S)),
                     single |-> mueller_rotation(Scalar(angle), NoShape)]
    /\ pc' = "build"
    /\ UNCHANGED <<heap, steps>>

BuildPolarizer ==
    /\ pc = "idle"
    /\ \E S \in Shapes, a \in AxisTans :
          /\ inp' = [builder |-> "linear_polarizer", shape |-> S, block |-> <<4, 4>>]
          /\ out' = [batched |-> linear_polarizer(Scalar(a), ShapeOf(S)),
                     single |-> linear_polarizer(Scalar(a), NoShape)]
    /\ pc' = "build"
    /\ UNCHANGED <<heap, steps>>

BuildRetarder ==
    /\ pc = "idle"
    /\ \E S \in Shapes, a \in AxisTans, r \in AxisTans :
          /\ inp' = [builder |-> "linear_retarder", shape |-> S, block |-> <<4, 4>>]
          /\ out' = [batched |-> linear_retarder(Scalar(a), Scalar(r), ShapeOf(S)),
                     single |-> linear_retarder(Scalar(a), Scalar(r), NoShape)]
    /\ pc' = "build"
    /\ UNCHANGED <<heap, steps>>

BuildDiattenuator ==
    /\ pc = "idle"
    /\ \E S \in Shapes, a \in AxisTans, Tmin \in ProductTmins :
          /\ inp' = [builder |-> "linear_diattenuator", shape |-> S, block |-> <<4, 4>>]
          /\ out' = [batched |-> linear_diattenuator(Scalar(a), Scalar(Tmin), Scalar(One),
                                                     ShapeOf(S)),
                     single |-> linear_diattenuator(Scalar(a), Scalar(Tmin), Scalar(One),
                                                    NoShape)]
    /\ pc' = "build"
    /\ UNCHANGED <<heap, steps>>

BuildDepolarizer ==
    /\ pc = "idle"
    /\ \E S \in Shapes, angle \in AxisTans, f \in Factors :
          /\ inp' = [builder |-> "depolarizer", shape |-> S, block |-> <<4, 4>>]
          /\ out' = [batched |-> depolarizer(Scalar(angle), Scalar(f[1]), Scalar(f[2]),
                                             Scalar(f[3]), ShapeOf(S)),
                     single |-> depolarizer(Scalar(angle), Scalar(f[1]), Scalar(f[2]),
                                            Scalar(f[3]), NoShape)]
    /\ pc' = "build"
    /\ UNCHANGED <<heap, steps>>

NextBuild ==
    \/ BuildStokes
    \/ BuildRotation
    \/ BuildPolarizer
    \/ BuildRetarder
    \/ BuildDiattenuator
    \/ BuildDepolarizer
    \/ Return

SpecBuild == Init /\ [][NextBuild]_vars

(***************************************************************************)
(* The decomposition stages on a batch: M has shape (BatchLen, 4, 4)       *)
(***************************************************************************)
BatchLen == 2

\* the elements of a batch: two regular systems, then one for each failure
\* (D > 1, D = 0, a singular Md, det(mm) = 0)
Elements ==
    { Compose(<<1, 2>>, <<One, <<1, 2>>, <<1, 4>>>>, Zero, One, <<1, 2>>, <<1, 4>>, One).data[1],
      linear_diattenuator(Scalar(Zero), Scalar(<<1, 4>>), Scalar(One), NoShape).data[1],
      RawMatrix(One, <<5, 4>>, Zero, 3, Eye(4)),
      Eye(4),
      linear_polarizer(Scalar(Zero), NoShape).data[1],
      Compose(Zero, <<Zero, <<1, 2>>, One>>, Zero, One, Zero, <<1, 4>>, One).data[1] }

Batch(blocks) == [shape |-> <<Len(blocks), 4, 4>>, data |-> blocks]

BatchDiattenuator ==
    /\ pc = "idle"
    /\ \E blocks \in TuplesOf(Elements, BatchLen) :
          /\ inp' = [stage |-> "decompose_diattenuator", M |-> Batch(blocks),
                     return_all |-> FALSE]
          /\ out' = Ok(<<decompose_diattenuator(Batch(blocks))>>)
    /\ pc' = "batch"
    /\ UNCHANGED <<heap, steps>>

BatchRetarder ==
    /\ pc = "idle"
    /\ \E blocks \in TuplesOf(Elements, BatchLen), return_all \in BOOLEAN,
          onSingular \in {"raise", "garbage"} :
          /\ inp' = [stage |-> "decompose_retarder", M |-> Batch(blocks),
                     return_all |-> return_all]
          /\ out' = decompose_retarder(Batch(blocks), return_all, onSingular)
    /\ pc' = "batch"
    /\ UNCHANGED <<heap, steps>>

BatchDepolarizer ==
    /\ pc = "idle"
    /\ \E blocks \in TuplesOf(Elements, BatchLen), return_all \in BOOLEAN,
          onSingular \in {"raise", "garbage"} :
          /\ inp' = [stage |-> "decompose_depolarizer", M |-> Batch(blocks),
                     return_all |-> return_all]
          /\ out' = decompose_depolarizer(Batch(blocks), return_all, onSingular)
    /\ pc' = "batch"
    /\ UNCHANGED <<heap, steps>>

NextBatch == BatchDiattenuator \/ BatchRetarder \/ BatchDepolarizer \/ Return

SpecBatch == Init /\ [][NextBatch]_vars

(***************************************************************************)
(* Storage.  heap is the tuple of the arrays the caller holds, an array    *)
(* being known by its index.  A call works on the heap: np.zeros and the   *)
(* value of an expression are new arrays, an assignment M[...] = v writes  *)
(* the array M names.  The call over, the caller holds what it held before *)
(* and the arrays returned; all else is garbage.                           *)
(***************************************************************************)
MaxSteps == 3

New(h, v) == [heap |-> Append(h, v), ref |-> Len(h) + 1]

ZerosLike(A) ==
    [shape |-> A.shape,
     data |-> Eager([k \in 1..Len(A.data) |-> Zeros(Len(A.data[k]), Len(A.data[k][1]))])]

\* a mutation of np.zeros_like: the array itself, as in M_depolarizer = M
SameArray(h, ref) == [heap |-> h, ref |-> ref]

\* np.zeros_like(A): a new array
np_zeros_like(h, ref) == New(h, ZerosLike(h[ref]))

\* A[...] = v, all of A
Store(h, ref, v) == [h EXCEPT ![ref] = v]

\* A[..., 1:, 0] = v[..., 1:, 0]; A[..., 1:, 1:] = v[..., 1:, 1:]; A[..., 0, 0] = 1
StoreLower(h, ref, v) ==
    [h EXCEPT ![ref] =
        [shape |-> @.shape,
         data |-> Eager([k \in 1..Len(@.data) |->
                     Tabulate(4, 4, LAMBDA i, j :
                         IF i = 1 /\ j > 1 THEN @.data[k][i][j] ELSE v.data[k][i][j])])]]

Raised(h) == [heap |-> h, refs |-> <<>>, raised |-> TRUE]

Returned(h, refs) == [heap |-> h, refs |-> refs, raised |-> FALSE]

\* Md before Md * T
UnscaledMd(M) ==
    [shape |-> M.shape,
     data |-> Eager([k \in 1..Len(M.data) |->
                 DiattenuatorFromVector(One, DiattenuationVector(M.data[k]))])]

\* Md is assigned in place; Md * T is a new array
DiattenuatorFilled(Md, M) ==
    Returned(Append(Store(Md.heap, Md.ref, UnscaledMd(Md.heap[M])),
                    decompose_diattenuator(Md.heap[M])),
             <<Len(Md.heap) + 1>>)

heap_decompose_diattenuator(h, M) ==
    DiattenuatorFilled(New(h, empty_mueller(ShapeOf(BatchDims(h[M])))), M)

RetarderPlaced(d, Mr, return_all) ==
    IF Mr.raised THEN Raised(d.heap)
    ELSE Returned(Append(d.heap, Mr.val[1]),
                  IF return_all THEN <<Len(d.heap) + 1, d.refs[1]>> ELSE <<Len(d.heap) + 1>>)

heap_decompose_retarder(h, M, return_all, onSingular) ==
    RetarderPlaced(heap_decompose_diattenuator(h, M),
                   decompose_retarder(h[M], return_all, onSingular), return_all)

\* the return statement; all is what decompose_depolarizer returns
DepolarizerPlaced(r, h, M_depolarizer, all, return_all) ==
    IF ~return_all THEN Returned(h, <<M_depolarizer>>)
    ELSE IF all.raised THEN Raised(h)
    ELSE Returned(Append(h, all.val[2]), <<M_depolarizer, Len(h) + 1, r.refs[2]>>)

\* M_depolarizer = np.zeros_like(M) and its three assignments
DepolarizerAssigned(r, z, populated, all, return_all) ==
    DepolarizerPlaced(r, StoreLower(z.heap, z.ref, populated), z.ref, all, return_all)

\* md = np.zeros_like(mm) and its two masked assignments
MdAssigned(md, populated) == Store(md.heap, md.ref, MapBlocks(LowerRight, populated, 3, 3))

DepolarizerFromMp(r, M, populated, all, return_all) ==
    DepolarizerAssigned(r,
        np_zeros_like(
            MdAssigned(
                np_zeros_like(Append(r.heap, Gram(MapBlocks(LowerRight, r.heap[r.refs[1]], 3, 3))),
                              Len(r.heap) + 1),
                populated),
            M),
        populated, all, return_all)

\* first is what return_all=False returns: M_depolarizer, unless a step before it raised
DepolarizerSteps(r, M, first, all, return_all) ==
    IF r.raised \/ first.raised THEN Raised(r.heap)
    ELSE DepolarizerFromMp(r, M, first.val[1], all, return_all)

heap_decompose_depolarizer(h, M, return_all, onSingular) ==
    DepolarizerSteps(heap_decompose_retarder(h, M, return_all, onSingular), M,
                     decompose_depolarizer(h[M], FALSE, onSingular),
                     decompose_depolarizer(h[M], return_all, onSingular), return_all)

\* a builder: M = np.zeros(..), assigned and divided in place
Built(h, v) == Returned(Store(Append(h, ZerosLike(v)), Len(h) + 1, v), <<Len(h) + 1>>)

\* depolarizer: M, M_rot_in and M_rot_out are built, their product is a new array
BuiltProduct(h, M, M_rot_in, M_rot_out, v) ==
    Returned(Append(Built(Built(Built(h, M).heap, M_rot_in).heap, M_rot_out).heap, v),
             <<Len(h) + 4>>)

\* the arrays the caller holds when the call is over, and where the returned ones are
Kept(h, r) ==
    SubSeq(r.heap, 1, Len(h)) \o
        Eager([k \in 1..Cardinality({j \in 1..Len(r.refs) : r.refs[j] > Len(h)}) |->
                  r.heap[CHOOSE x \in {r.refs[j] : j \in 1..Len(r.refs)} :
                      x > Len(h) /\ Cardinality({y \in {r.refs[j] : j \in 1..Len(r.refs)} :
                                                    Len(h) < y /\ y < x}) = k - 1]])

KeptRef(h, r, x) ==
    IF x <= Len(h) THEN x
    ELSE Len(h) + 1 + Cardinality({y \in {r.refs[j] : j \in 1..Len(r.refs)} : Len(h) < y /\ y < x})

Outcome(h, r) ==
    [raised |-> r.raised, refs |-> Eager([k \in 1..Len(r.refs) |-> KeptRef(h, r, r.refs[k])])]

IsMueller(A) == Len(A.shape) >= 2 /\ SubSeq(A.shape, Len(A.shape) - 1, Len(A.shape)) = <<4, 4>>

\* an array of parameters: neither a Mueller nor a Stokes array
IsParameters(A) == Len(A.shape) = 1

\* parameter arrays of one element, with values that have a rational square root
ParameterArrays == {[shape |-> <<1>>, data |-> <<v>>] : v \in {Zero, <<1, 4>>, One}}

HeapInputs ==
    ParameterArrays \cup
        { Compose(<<1, 2>>, <<One, <<1, 2>>, <<1, 4>>>>, Zero, One, <<1, 2>>, <<1, 4>>, One),
          linear_polarizer(Scalar(<<1, 2>>), NoShape) }

\* the caller makes an array of its own
NewArray ==
    /\ pc = "idle" /\ steps < MaxSteps
    /\ \E A \in HeapInputs : heap' = Append(heap, A)
    /\ steps' = steps + 1
    /\ UNCHANGED <<pc, inp, out>>

Called(op, args, r) ==
    /\ inp' = [op |-> op, args |-> args, before |-> heap]
    /\ out' = Outcome(heap, r)
    /\ heap' = Kept(heap, r)
    /\ pc' = "heap_call"
    /\ steps' = steps + 1

HeapDecomposeDiattenuator ==
    /\ pc = "idle" /\ steps < MaxSteps
    /\ \E M \in {x \in DOMAIN heap : IsMueller(heap[x])} :
          Called("decompose_diattenuator", <<M>>, heap_decompose_diattenuator(heap, M))

HeapDecomposeRetarder ==
    /\ pc = "idle" /\ steps < MaxSteps
    /\ \E M \in {x \in DOMAIN heap : IsMueller(heap[x])}, return_all \in BOOLEAN,
          onSingular \in {"raise", "garbage"} :
          Called("decompose_retarder", <<M>>,
                 heap_decompose_retarder(heap, M, return_all, onSingular))

HeapDecomposeDepolarizer ==
    /\ pc = "idle" /\ steps < MaxSteps
    /\ \E M \in {x \in DOMAIN heap : IsMueller(heap[x])}, return_all \in BOOLEAN,
          onSingular \in {"raise", "garbage"} :
          Called("decompose_depolarizer", <<M>>,
                 heap_decompose_depolarizer(heap, M, return_all, onSingular))

\* a builder given parameter arrays p, q and their shape
HeapBuild ==
    /\ pc = "idle" /\ steps < MaxSteps
    /\ \E p, q \in {x \in DOMAIN heap : IsParameters(heap[x])} :
          \/ Called("stokes_from_parameters", <<p, q>>,
                    Built(heap, stokes_from_parameters(heap[p], heap[q], heap[q], heap[p],
                                                       ShapeOf(heap[p].shape))))
          \/ Called("mueller_rotation", <<p>>,
                    Built(heap, mueller_rotation(heap[p], ShapeOf(heap[p].shape))))
          \/ Called("linear_polarizer", <<p>>,
                    Built(heap, linear_polarizer(heap[p], ShapeOf(heap[p].shape))))
          \/ Called("linear_retarder", <<p, q>>,
                    Built(heap, linear_retarder(heap[p], heap[q], ShapeOf(heap[p].shape))))
          \/ Called("linear_diattenuator", <<p, q>>,
                    Built(heap, linear_diattenuator(heap[p], heap[q], Scalar(One),
                                                    ShapeOf(heap[p].shape))))
          \/ Called("depolarizer", <<p, q>>,
                    BuiltProduct(heap,
                        DepolarizerFill(empty_mueller(ShapeOf(heap[p].shape)),
                                        heap[q], heap[q], heap[p]),
                        mueller_rotation(Map1(Negate, heap[p]), ShapeOf(heap[p].shape)),
                        mueller_rotation(heap[p], ShapeOf(heap[p].shape)),
                        depolarizer(heap[p], heap[q], heap[q], heap[p],
                                    ShapeOf(heap[p].shape))))

NextHeap ==
    \/ NewArray
    \/ HeapDecomposeDiattenuator
    \/ HeapDecomposeRetarder
    \/ HeapDecomposeDepolarizer
    \/ HeapBuild
    \/ Return

SpecHeap == Init /\ [][NextHeap]_vars

(***************************************************************************)
(* Properties of the single calls (Spec)                                   *)
(***************************************************************************)
Identity4 == Mueller(Eye(4))

\* C2: for every angle a and every Tmin, decompose_diattenuator applied to
\* linear_diattenuator(a, Tmin) returns that matrix, entry for entry.
C2_DiattenuatorRecovered ==
    pc = "diattenuator_of_linear_diattenuator" => ~out.raised /\ out.val = inp.M

\* the cases of C2 away from Tmin = Tmax do recover M
C2_HoldsAwayFromUnity ==
    pc = "diattenuator_of_linear_diattenuator" /\ inp.Tmin # One
        => ~out.raised /\ out.val = inp.M

\* C3: decompose_diattenuator applied to the 4x4 identity returns the 4x4
\* identity (T = 1, d = 0, inner block the 3x3 identity).
C3_IdentityDecomposesToIdentity ==
    pc = "decompose_diattenuator" /\ inp.M = Identity4 => out.val = Identity4

\* C5: for every angle, mueller_rotation(angle) @ mueller_rotation(-angle) is
\* the 4x4 identity.
C5_RotationInverse ==
    pc = "rotation_then_inverse" => ~out.raised /\ out.val = Identity4

C5_Witness ==
    /\ pc = "rotation_then_inverse"
    /\ inp.angle \notin {Zero, PosInf, NegInf}
    /\ out.val = Identity4

\* C6: for every fast-axis angle a and retardance r,
\* linear_retarder(a, r) @ linear_retarder(a, -r) is the 4x4 identity.
C6_RetarderInverse ==
    pc = "retarder_then_inverse" => ~out.raised /\ out.val = Identity4

C6_Witness ==
    /\ pc = "retarder_then_inverse"
    /\ inp.a \notin {Zero, PosInf, NegInf}
    /\ inp.r \notin {Zero, PosInf, NegInf}
    /\ out.val = Identity4

\* one half of the outer product of v with itself
HalfOuter(v) == Tabulate(4, 4, LAMBDA i, j : FMul(<<1, 2>>, FMul(v[i], v[j])))

PolarizerAtZero ==
    << <<<<1, 2>>, <<1, 2>>, Zero, Zero>>, <<<<1, 2>>, <<1, 2>>, Zero, Zero>>,
       <<Zero, Zero, Zero, Zero>>, <<Zero, Zero, Zero, Zero>> >>

\* C7: for every angle a, linear_polarizer(a) is one half of the outer product
\* of [1, cos 2a, sin 2a, 0] with itself, so its fourth row and column are
\* zero; linear_polarizer(0) is [[.5,.5,0,0],[.5,.5,0,0],[0,0,0,0],[0,0,0,0]].
C7_PolarizerOuterProduct ==
    pc = "linear_polarizer" =>
        /\ ~out.raised
        /\ out.val = Mueller(HalfOuter(<<One, Cos(inp.a), Sin(inp.a), Zero>>))
        /\ \A i \in 1..4 : out.val.data[1][4][i] = Zero /\ out.val.data[1][i][4] = Zero
        /\ inp.a = Zero => out.val.data[1] = PolarizerAtZero

C7_Witness ==
    /\ pc = "linear_polarizer"
    /\ inp.a = <<1, 2>>
    /\ out.val.data[1][2][3] = <<6, 25>>

\* the scalar diattenuation D of a 4x4 input
InputD(M) == ScalarDiattenuation(DiattenuationVector(M.data[1]))

InnerIsNaN(m) == \A i \in 2..4 : \A j \in 2..4 : IsNaN(m[i][j])

\* [0,0] is T, the first row and column are T*d, all finite
BorderIsFinite(m, T, d) ==
    /\ m[1][1] = T /\ IsFinite(T)
    /\ \A j \in 1..3 :
          /\ m[1][j + 1] = FMul(T, d[j]) /\ IsFinite(m[1][j + 1])
          /\ m[j + 1][1] = FMul(T, d[j])

UnphysicalOutcome ==
    /\ ~out.raised
    /\ InnerIsNaN(out.val.data[1])
    /\ BorderIsFinite(out.val.data[1], inp.M.data[1][1][1],
                      DiattenuationVector(inp.M.data[1]))

\* C10 as stated: for an input whose scalar diattenuation D is greater than 1,
\* decompose_diattenuator raises nothing and returns a matrix whose inner 3x3
\* block is NaN, with [0,0] and the first row and column the finite T and T*d.
C10_AsStated ==
    pc = "decompose_diattenuator" /\ FLess(One, InputD(inp.M)) => UnphysicalOutcome

\* C10, amended: the same for an input whose diattenuation vector
\* d = M[0,1:4]/M[0,0] is finite (M[0,0] is not zero) with norm D greater than 1.
C10_FiniteVector ==
    pc = "decompose_diattenuator"
        /\ (\A j \in 1..3 : IsFinite(DiattenuationVector(inp.M.data[1])[j]))
        /\ FLess(One, InputD(inp.M))
        => UnphysicalOutcome

C10_Witness ==
    /\ pc = "decompose_diattenuator"
    /\ inp.M.data[1][1][1] = <<1, 2>>
    /\ InputD(inp.M) = <<5, 4>>
    /\ UnphysicalOutcome

(***************************************************************************)
(* Properties of the decomposition of composed systems (SpecDepol)         *)
(***************************************************************************)
\* C1: for every M = depolarizer(..) @ linear_retarder(..) @ linear_diattenuator(..),
\* decompose_depolarizer(M, return_all=True) returns (Mdep, Mr, Md) with
\* Mdep @ Mr @ Md equal to M.
C1_Factorization ==
    pc = "depolarizer_of_product" /\ inp.return_all =>
        /\ ~out.raised
        /\ MatMulBlocks(MatMulBlocks(out.val[1], out.val[2]), out.val[3]) = inp.M

\* the composed systems C1 does hold for: a partial diattenuator
\* (0 < Tmin < Tmax) and no depolarization factor equal to zero
C1_HoldsOnRegular ==
    pc = "depolarizer_of_product" /\ inp.return_all
        /\ inp.Tmin \notin {Zero, inp.Tmax} /\ Zero \notin {inp.abc[i] : i \in 1..3}
        => /\ ~out.raised
           /\ MatMulBlocks(MatMulBlocks(out.val[1], out.val[2]), out.val[3]) = inp.M

\* The intermediates of decompose_depolarizer for one element Mp of finite mm:
\* Pdelta, mp, mm, the computed det(mm), lhs, rhs and inv(lhs) @ rhs.
TraceFromRoots(Mp, mm, e) ==
    [computed |-> TRUE, Pdelta |-> LowerLeft(Mp), det_mp |-> Det(LowerRight(Mp)),
     mm |-> mm, det_mm |-> DetBlock(mm, inp.onSingular),
     singular_lhs |-> InvBlock(LhsBlock(mm, e)).singular,
     solved |-> MatMul(InvBlock(LhsBlock(mm, e)).inv, RhsBlock(mm, e))]

TraceFromMm(Mp, mm) ==
    IF AllFinite(mm.data[1])
    THEN TraceFromRoots(Mp, mm.data[1], Roots(np_linalg_eigvals(mm).val).data[1])
    ELSE [computed |-> FALSE]

TraceFromMp(Mp) == TraceFromMm(Mp.data[1], Gram(MapBlocks(LowerRight, Mp, 3, 3)))

\* The intermediates for the input of the recorded call.  When np.linalg.inv(Md)
\* raises or returns NaN no finite mm is computed.
Trace == TraceFromMp(decompose_retarder(inp.M, FALSE, "garbage").val[1])

\* the inner block the sign of det(mm) selects
InnerBySign(t) ==
    IF IsNeg(t.det_mm) THEN MatNeg(t.solved)
    ELSE IF IsPos(t.det_mm) THEN t.solved
    ELSE Zeros(3, 3)

\* the returned depolarizer is [[1, 0], [Pdelta, inner]]
DepolarizerHasBlocks(Mdep, Pdelta, inner) ==
    /\ Mdep[1] = <<One, Zero, Zero, Zero>>
    /\ LowerLeft(Mdep) = Pdelta
    /\ LowerRight(Mdep) = inner

SelectedBySign(t) ==
    ~out.raised => DepolarizerHasBlocks(out.val[1].data[1], t.Pdelta, InnerBySign(t))

SilentOnZero(t) == (t.det_mm = Zero /\ ~inp.return_all) => ~out.raised

RaisesOnSingularLhs(t) ==
    (t.det_mm = Zero /\ ~inp.return_all) =>
        (out.raised <=> (t.singular_lhs /\ inp.onSingular = "raise"))

AsStated11(t) == t.computed => (SelectedBySign(t) /\ SilentOnZero(t))

Amended11(t) == t.computed => (SelectedBySign(t) /\ RaisesOnSingularLhs(t))

\* C11 as the spec states it: the inner block of the returned depolarizer is
\* -inv(lhs)@rhs, +inv(lhs)@rhs or the zero block as det(mm) is negative,
\* positive or exactly zero, around it [0,0] = 1, the first column Pdelta and
\* the first row 0; and with det(mm) = 0 the default call returns without error.
C11_AsStated == pc = "depolarizer_of_product" => AsStated11(Trace)

\* C11, amended: whenever a depolarizer is returned its blocks are selected by
\* the sign of det(mm) as stated, and with det(mm) = 0 the default call returns
\* the zero block without error exactly when lhs is not found singular: on a
\* singular lhs (mm of rank at most one) np.linalg.inv(lhs), evaluated whatever
\* the mask, raises LinAlgError.
C11_SelectedBySign == pc = "depolarizer_of_product" => Amended11(Trace)

ZeroBlockReturned(t) ==
    /\ t.computed /\ t.det_mm = Zero /\ ~t.singular_lhs
    /\ LowerRight(out.val[1].data[1]) = Zeros(3, 3)

\* a returned depolarizer with det(mm) = 0, a regular lhs and the zero block
C11_Witness ==
    /\ pc = "depolarizer_of_product" /\ ~inp.return_all /\ ~out.raised
    /\ inp.abc = <<Zero, <<1, 2>>, One>>
    /\ ZeroBlockReturned(Trace)

\* (Mdep, inv(Mdep) @ decompose_retarder(M), decompose_diattenuator(M))
TripleOf(Mdep) ==
    <<Mdep,
      MatMulBlocks(np_linalg_inv(Mdep, "garbage").val,
                   decompose_retarder(inp.M, FALSE, "garbage").val[1]),
      decompose_diattenuator(inp.M)>>

\* the call with return_all returned the triple of the default call's result
OnlyAdds(default) ==
    ~default.raised => (~out.raised /\ out.val = TripleOf(default.val[1]))

AddsWhenReturned(default) ==
    (~default.raised /\ ~out.raised) => out.val = TripleOf(default.val[1])

ReturnsOnInvertible(default, t) ==
    (~default.raised /\ t.computed /\ t.det_mm # Zero) => ~out.raised

\* the default call on the input of the recorded call, in the same build
DefaultCall == decompose_depolarizer(inp.M, FALSE, inp.onSingular)

\* C12: return_all only adds outputs: whenever decompose_depolarizer(M) returns
\* a depolarizer Mdep, decompose_depolarizer(M, return_all=True) returns too, and
\* returns (Mdep, inv(Mdep) @ decompose_retarder(M), decompose_diattenuator(M)).
C12_ReturnAllOnlyAdds ==
    (pc = "depolarizer_of_product" /\ inp.return_all) => OnlyAdds(DefaultCall)

\* what does hold: a call with return_all that returns, returns the triple of
\* the default call, and it returns whenever the default call returns a
\* depolarizer with det(mm) # 0
C12_HoldsOnInvertible ==
    (pc = "depolarizer_of_product" /\ inp.return_all) =>
        /\ AddsWhenReturned(DefaultCall)
        /\ ReturnsOnInvertible(DefaultCall, Trace)

NeverNegative(t) ==
    t.computed =>
        /\ ~IsNeg(t.det_mm)
        /\ ~out.raised => LowerRight(out.val[1].data[1]) \in {t.solved, Zeros(3, 3)}

NegativeOnlyOnSingular(t) ==
    t.computed =>
        /\ Det(t.mm) = FMul(t.det_mp, t.det_mp)
        /\ IsNeg(t.det_mm) => t.det_mp = Zero
        /\ t.det_mp # Zero =>
              /\ t.det_mm = FMul(t.det_mp, t.det_mp)
              /\ IsPos(t.det_mm)
              /\ ~out.raised => LowerRight(out.val[1].data[1]) = t.solved

PositiveForNegativeMp(t) ==
    /\ t.computed /\ IsNeg(t.det_mp) /\ IsPos(t.det_mm)
    /\ LowerRight(out.val[1].data[1]) = t.solved

C4_BatchConsistency ==
    pc = "build" =>
        /\ out.batched.shape = inp.shape \o inp.block
        /\ Len(out.batched.data) = Prod(inp.shape)
        /\ out.single.shape = inp.block
        /\ Len(out.single.data) = 1
        /\ \A k \in 1..Len(out.batched.data) : out.batched.data[k] = out.single.data[1]

C4_Witness ==
    /\ pc = "build"
    /\ inp.builder = "depolarizer"
    /\ inp.shape = <<MaxDim, MaxDim>>
    /\ out.single.data[1][2][3] # Zero
    /\ \A k \in 1..(MaxDim * MaxDim) : out.batched.data[k] = out.single.data[1]

(***************************************************************************)
(* Properties of the stages on a batch (SpecBatch)                         *)
(***************************************************************************)
\* what a stage returns for one matrix alone, where no singular matrix is met
Alone(stage, m, return_all) ==
    IF stage = "decompose_diattenuator" THEN Ok(<<decompose_diattenuator(Mueller(m))>>)
    ELSE IF stage = "decompose_retarder" THEN decompose_retarder(Mueller(m), return_all, "raise")
    ELSE decompose_depolarizer(Mueller(m), return_all, "raise")

\* the stage neither fails nor returns a NaN for this matrix alone
Sound(stage, m, return_all) ==
    /\ ~Alone(stage, m, return_all).raised
    /\ \A o \in 1..Len(Alone(stage, m, return_all).val) :
          AllFinite(Alone(stage, m, return_all).val[o].data[1])

\* element k of every output is what the stage returns for element k alone
SameAsAlone(k) ==
    \A o \in 1..Len(out.val) :
        out.val[o].data[k] = Alone(inp.stage, inp.M.data[k], inp.return_all).val[o].data[1]

\* C9: in a batched call to a decomposition stage, a failure in one element
\* (D > 1, D = 0, singular Md, det(mm) = 0) stays local: the call returns, and
\* every other element's output is what the stage returns for it alone.
C9_FailuresStayLocal ==
    pc = "batch" =>
        /\ ~out.raised
        /\ \A k \in 1..Len(inp.M.data) :
              Sound(inp.stage, inp.M.data[k], inp.return_all) => SameAsAlone(k)

\* decompose_diattenuator, which inverts nothing, does keep failures local
C9_DiattenuatorStageLocal ==
    pc = "batch" /\ inp.stage = "decompose_diattenuator" =>
        /\ ~out.raised
        /\ \A k \in 1..Len(inp.M.data) : SameAsAlone(k)

\* a batch of sound elements is decomposed element by element
C9_SoundBatches ==
    pc = "batch"
        /\ (\A k \in 1..Len(inp.M.data) : Sound(inp.stage, inp.M.data[k], inp.return_all))
        => ~out.raised /\ \A k \in 1..Len(inp.M.data) : SameAsAlone(k)

(***************************************************************************)
(* Properties of the storage (SpecHeap)                                    *)
(***************************************************************************)
\* C8: after any call to a decomposition stage (either return_all mode) or to
\* a builder given parameter arrays, every array the caller held before the
\* call (the input M, the parameter arrays, the arrays earlier calls returned)
\* is unchanged, and the returned arrays are none of them.
C8_NoMutation ==
    pc = "heap_call" =>
        /\ \A x \in DOMAIN inp.before : x \in DOMAIN heap /\ heap[x] = inp.before[x]
        /\ \A k \in DOMAIN out.refs : out.refs[k] \notin DOMAIN inp.before
        /\ \A k, l \in DOMAIN out.refs : k # l => out.refs[k] # out.refs[l]

\* a second call, made on the diattenuator a first call returned
C8_Witness ==
    /\ pc = "heap_call"
    /\ inp.op = "decompose_depolarizer"
    /\ Len(inp.before) = 4
    /\ inp.args = <<2>>
    /\ heap[2] = linear_diattenuator(Scalar(<<1, 2>>), Scalar(<<1, 4>>), Scalar(One), NoShape)
    /\ Len(out.refs) = 3
    /\ AllFinite(heap[out.refs[1]].data[1])
    /\ SubSeq(heap, 1, 4) = inp.before

====
